---------------------------- MODULE Spec2Model ----------------------------
(***************************************************************************)
(* Model of pyschism/driver/makefile.py: the Makefile renderers            *)
(* (DefaultMakefile, SlurmMakefile), the MakefileDriver selection, the     *)
(* Makefile.write operation, and the behaviour of the shell recipes that   *)
(* the rendered templates encode (the "slurm" and "run" targets).          *)
(*                                                                         *)
(* Text is modelled as a sequence of tokens: a single space (SP), a        *)
(* newline (NL), a tab (TAB), or a maximal run of other characters (a      *)
(* word).  str.replace("    ", "\t") only ever looks at spaces, so this    *)
(* tokenisation keeps everything the replacement can observe.              *)
(***************************************************************************)
EXTENDS Integers, Sequences, FiniteSets, TLC

SP == " "
NL == "\n"
TAB == "\t"

(***************************************************************************)
(* Bounds of the model.                                                    *)
(***************************************************************************)
\* longest configuration text (in tokens) drawn as str(server_config)
MaxLen == 5
\* number of destination paths of the modelled file system
NPaths == 2
\* the solver exits with a status in 0..MaxStatus
MaxStatus == 1
\* the scheduler hands out job identifiers 1..NJobs
NJobs == 1
\* SIGINTs delivered during one make run
MaxInterrupts == 1

(***************************************************************************)
(* The template texts, token by token, as the source spells them.          *)
(***************************************************************************)
HeaderComment ==
    << "#", SP, "Makefile", SP, "driver", SP, "generated", SP, "by", SP, "PySCHISM." >>

MakefilePathLine ==
    << "MAKEFILE_PATH:=$(abspath", SP, "$(lastword", SP, "$(MAKEFILE_LIST)))" >>

RootDirLine ==
    << "ROOT_DIR:=$(dir", SP, "$(MAKEFILE_PATH))" >>

tail ==
    << NL,
       "tail:", NL,
       SP, SP, SP, SP, "tail", SP, "-f", SP, "outputs/mirror.out", SP, SP, "outputs/fatal.error", NL >>

symlinks ==
    << NL,
       "symlinks:", NL,
       SP, SP, SP, SP, "@set", SP, "-e;\\", NL,
       SP, SP, SP, SP, "if", SP, "[", SP, "!", SP, "-z", SP, "$${SYMLINK_OUTPUTS_DIR}", SP, "];\\", NL,
       SP, SP, SP, SP, "then", SP, "\\", NL,
       SP, SP, SP, SP, SP, SP, SP, SP, "ln", SP, "-sf", SP, "$${SYMLINK_OUTPUTS_DIR}", SP, "$${ROOT_DIR}outputs;\\", NL,
       SP, SP, SP, SP, "else", SP, "\\", NL,
       SP, SP, SP, SP, SP, SP, SP, SP, "mkdir", SP, "-p", SP, "$${ROOT_DIR}outputs;\\", NL,
       SP, SP, SP, SP, "fi;\\", NL,
       SP, SP, SP, SP, "touch", SP, "outputs/mirror.out", SP, "outputs/fatal.error", NL >>

DefaultMakefile_default ==
    << NL,
       "default:", SP, "symlinks", NL >>

DefaultMakefile_run ==
    << NL,
       "run:", SP, "default", NL,
       SP, SP, SP, SP, "@set", SP, "-e;\\", NL,
       SP, SP, SP, SP, "eval", SP, "'tail", SP, "-f", SP, "outputs/mirror.out", SP, SP, "outputs/fatal.error", SP, "&';\\", NL,
       SP, SP, SP, SP, "tail_pid=$${!};\\", NL,
       SP, SP, SP, SP, "${MPI_LAUNCHER}", SP, "${NPROC}", SP, "${SCHISM_BINARY};\\", NL,
       SP, SP, SP, SP, "kill", SP, "\"$${tail_pid}\"", NL >>

SlurmMakefile_default ==
    << NL,
       "default:", SP, "slurm", NL >>

slurm ==
    << NL,
       "slurm:", SP, "symlinks", NL,
       SP, SP, SP, SP, "@set", SP, "-e;\\", NL,
       SP, SP, SP, SP, "printf", SP, "\"#!/bin/bash", SP, "--login\\n\"", SP, ">", SP, "${SLURM_JOB_FILE};\\", NL,
       SP, SP, SP, SP, "printf", SP, "\"#SBATCH", SP, "-D", SP, ".\\n\"", SP, ">>", SP, "${SLURM_JOB_FILE};\\", NL,
       SP, SP, SP, SP, "if", SP, "[", SP, "!", SP, "-z", SP, "\"${SLURM_ACCOUNT}\"", SP, "];\\", NL,
       SP, SP, SP, SP, "then", SP, "\\", NL,
       SP, SP, SP, SP, SP, SP, SP, SP, "printf", SP, "\"#SBATCH", SP, "-A", SP, "${SLURM_ACCOUNT}\\n\"", SP, ">>", SP, "${SLURM_JOB_FILE};\\", NL,
       SP, SP, SP, SP, "fi;\\", NL,
       SP, SP, SP, SP, "if", SP, "[", SP, "!", SP, "-z", SP, "\"${SLURM_MAIL_USER}\"", SP, "];\\", NL,
       SP, SP, SP, SP, "then", SP, "\\", NL,
       SP, SP, SP, SP, SP, SP, SP, SP, "printf", SP, "\"#SBATCH", SP, "--mail-user=${SLURM_MAIL_USER}\\n\"", SP, ">>", SP, "${SLURM_JOB_FILE};\\", NL,
       SP, SP, SP, SP, SP, SP, SP, SP, "printf", SP, "\"#SBATCH", SP, "--mail-type=${SLURM_MAIL_TYPE:-all}\\n\"", SP, ">>", SP, "${SLURM_JOB_FILE};\\", NL,
       SP, SP, SP, SP, "fi;\\", NL,
       SP, SP, SP, SP, "printf", SP, "\"#SBATCH", SP, "--output=${SLURM_LOG_FILE}\\n\"", SP, ">>", SP, "${SLURM_JOB_FILE};\\", NL,
       SP, SP, SP, SP, "printf", SP, "\"#SBATCH", SP, "-n", SP, "${SLURM_NTASKS}\\n\"", SP, ">>", SP, "${SLURM_JOB_FILE};\\", NL,
       SP, SP, SP, SP, "if", SP, "[", SP, "!", SP, "-z", SP, "\"${SLURM_WALLTIME}\"", SP, "];\\", NL,
       SP, SP, SP, SP, "then", SP, "\\", NL,
       SP, SP, SP, SP, SP, SP, SP, SP, "printf", SP, "\"#SBATCH", SP, "--time=${SLURM_WALLTIME}\\n\"", SP, ">>", SP, "${SLURM_JOB_FILE};\\", NL,
       SP, SP, SP, SP, "fi;\\", NL,
       SP, SP, SP, SP, "if", SP, "[", SP, "!", SP, "-z", SP, "\"${SLURM_PARTITION}\"", SP, "]", SP, ";\\", NL,
       SP, SP, SP, SP, "then", SP, "\\", NL,
       SP, SP, SP, SP, SP, SP, SP, SP, "printf", SP, "\"#SBATCH", SP, "--partition=${SLURM_PARTITION}\\n\"", SP, ">>", SP, "${SLURM_JOB_FILE};\\", NL,
       SP, SP, SP, SP, "fi;\\", NL,
       SP, SP, SP, SP, "printf", SP, "\"\\nset", SP, "-e\\n\"", SP, ">>", SP, "${SLURM_JOB_FILE};\\", NL,
       SP, SP, SP, SP, "printf", SP, "\"${MPI_LAUNCHER}", SP, "${SCHISM_BINARY}\"", SP, ">>", SP, "${SLURM_JOB_FILE}", NL >>

SlurmMakefile_run ==
    << NL,
       "run:", SP, "$(if", SP, "!", SP, "$(\"$(wildcard", SP, "$(SLURM_JOB_FILE))\",\"\"),", SP, "slurm)", NL,
       SP, SP, SP, SP, "@set", SP, "-e;\\", NL,
       SP, SP, SP, SP, "touch", SP, "${SLURM_LOG_FILE};\\", NL,
       SP, SP, SP, SP, "eval", SP, "'tail", SP, "-f", SP, "${SLURM_LOG_FILE}", SP, "outputs/mirror.out", SP, "outputs/fatal.error", SP, "&';\\", NL,
       SP, SP, SP, SP, "tail_pid=$${!};\\", NL,
       SP, SP, SP, SP, "job_id=$$(sbatch", SP, "${SLURM_JOB_FILE});\\", NL,
       SP, SP, SP, SP, "printf", SP, "\"$${job_id}\\n\";\\", NL,
       SP, SP, SP, SP, "job_id=$$(echo", SP, "$${job_id}", SP, "|", SP, "awk", SP, "'{print", SP, "$$NF}');\\", NL,
       SP, SP, SP, SP, "ctrl_c()", SP, "{", SP, "\\", NL,
       SP, SP, SP, SP, SP, SP, SP, SP, "scancel", SP, "\"$${job_id}\";\\", NL,
       SP, SP, SP, SP, "};\\", NL,
       SP, SP, SP, SP, "while", SP, "[", SP, "$$(squeue", SP, "-j", SP, "$${job_id}", SP, "|", SP, "wc", SP, "-l)", SP, "-eq", SP, "2", SP, "];\\", NL,
       SP, SP, SP, SP, "do", SP, "\\", NL,
       SP, SP, SP, SP, SP, SP, SP, SP, "trap", SP, "ctrl_c", SP, "SIGINT;\\", NL,
       SP, SP, SP, SP, "done;\\", NL,
       SP, SP, SP, SP, "kill", SP, "\"$${tail_pid}\"", NL >>

(***************************************************************************)
(* Rendering: __str__ of the two renderers.                                *)
(***************************************************************************)
\* whether old = "    " occurs in s at position j
OccursAt(s, j) == j + 3 <= Len(s) /\ \A k \in j..(j + 3) : s[k] = SP

\* s.find("    ", i): the leftmost occurrence at or after i, 0 when none
find(s, i) ==
    IF \E j \in i..Len(s) : OccursAt(s, j)
    THEN CHOOSE j \in i..Len(s) :
            OccursAt(s, j) /\ \A k \in i..(j - 1) : ~OccursAt(s, k)
    ELSE 0

RECURSIVE ReplaceFrom(_, _)
\* str.replace("    ", "\t") from position i on: find the next occurrence,
\* copy the text before it, emit the tab, go on after the occurrence
ReplaceFrom(s, i) ==
    LET m == find(s, i)
    IN  IF m = 0 THEN SubSeq(s, i, Len(s))
        ELSE SubSeq(s, i, m - 1) \o <<TAB>> \o ReplaceFrom(s, m + 4)

\* a replace that stops after its first substitution (count = 1)
replace_first(line) ==
    LET m == find(line, 1)
    IN  IF m = 0 THEN line
        ELSE SubSeq(line, 1, m - 1) \o <<TAB>> \o SubSeq(line, m + 4, Len(line))

\* line.replace("    ", "\t")
replace(line) == ReplaceFrom(line, 1)

RECURSIVE JoinFrom(_, _, _)
JoinFrom(sep, list, i) ==
    IF i > Len(list) THEN << >>
    ELSE IF i = Len(list) THEN list[i]
    ELSE list[i] \o sep \o JoinFrom(sep, list, i + 1)

\* sep.join(list)
join(sep, list) == JoinFrom(sep, list, 1)

\* the list f of DefaultMakefile.__str__
DefaultMakefile_f(config_text) ==
    << HeaderComment, MakefilePathLine, RootDirLine, config_text,
       DefaultMakefile_default, symlinks, DefaultMakefile_run, tail >>

\* a list f that lost the symlinks block
SlurmMakefile_f_no_symlinks(config_text) ==
    << HeaderComment, MakefilePathLine, RootDirLine, config_text,
       SlurmMakefile_default, slurm, SlurmMakefile_run, tail >>

\* the list f of SlurmMakefile.__str__
SlurmMakefile_f(config_text) ==
    << HeaderComment, MakefilePathLine, RootDirLine, config_text,
       SlurmMakefile_default, symlinks, slurm, SlurmMakefile_run, tail >>

\* "\n".join([line.replace("    ", "\t") for line in f])
render(f) == join(<<NL>>, [i \in DOMAIN f |-> replace(f[i])])

DefaultMakefile_str(config_text) == render(DefaultMakefile_f(config_text))

SlurmMakefile_str(config_text) == render(SlurmMakefile_f(config_text))

(***************************************************************************)
(* State.                                                                  *)
(***************************************************************************)
VARIABLES
    \* -- the generator: MakefileDriver and Makefile.write
    makefile,       \* the renderer object MakefileDriver returned, or NoObject
    fs,             \* file system: path -> File(contents) or NoFile
    fs_pre,         \* the file system as it was before the last call
    call,           \* the last call made and its arguments
    raised,         \* the exception the last call raised, or "none"
    \* -- rendering as a pure function of the configuration text
    config_text,    \* str(server_config) handed to the two __str__
    default_out,    \* DefaultMakefile.__str__ output, or NotRendered
    slurm_out,      \* SlurmMakefile.__str__ output, or NotRendered
    \* -- make running the generated makefile
    mk_class,       \* the renderer that wrote the makefile
    todo,           \* the targets make still has to build, in order
    pc,             \* source line of the recipe command the shell runs next; 0: no recipe running
    status,         \* of make: "running", "done", "failed", "interrupted"
    env,            \* the variables the recipes read
    job_file,       \* ${SLURM_JOB_FILE}: File(its lines), or NoFile
    outputs,        \* the outputs entry: "absent", "dir", "symlink"
    touched,        \* the log files that exist
    tail_proc,      \* the background tail -f: "none", "running", "killed"
    tail_pid,       \* the shell variable tail_pid
    solver,         \* the solver process: "none", "running", "exited"
    exit_status,    \* the solver's exit status
    job,            \* the batch job: "none", "queued", "gone", "cancelled"
    submitted,      \* the identifier the scheduler gave the job
    job_id,         \* the shell variable job_id, as tokens
    trap_set,       \* whether trap ctrl_c SIGINT has run
    sigint_log,     \* each SIGINT delivered: where, and what scancel was called with
    events          \* the first occurrence of each step of the batch run recipe

gen_vars == << makefile, fs, fs_pre, call, raised >>
render_vars == << config_text, default_out, slurm_out >>
make_vars ==
    << mk_class, todo, pc, status, env, job_file, outputs, touched, tail_proc,
       tail_pid, solver, exit_status, job, submitted, job_id, trap_set,
       sigint_log, events >>
vars == << gen_vars, render_vars, make_vars >>

NoObject == [class |-> "NoObject"]
\* a path that does not exist, and a file with its contents
NoFile == [exists |-> FALSE, text |-> << >>]

File(text) == [exists |-> TRUE, text |-> text]
NotRendered == "NotRendered"

(***************************************************************************)
(* Configurations.  pyschism.server is imported, not defined, by the       *)
(* module: a configuration is its concrete kind and the text its __str__   *)
(* gives.                                                                  *)
(***************************************************************************)
\* text of a local/MPI configuration
ServerConfigText ==
    << "MPI_LAUNCHER=mpirun", NL, "NPROC=4", NL, "SCHISM_BINARY=/opt/schism" >>

\* text of a batch configuration; one value is padded with four spaces
SlurmConfigText ==
    << "SLURM_NTASKS=4", NL, "SLURM_JOB_FILE=job.sh", SP, SP, SP, SP, "#", SP, "batch" >>

\* str() of an object that is no configuration at all (a dict)
UnrecognizedText == << "{'nproc':", SP, "4}" >>

\* ServerConfig(): the configuration Makefile.__init__ substitutes for None
ServerConfig_default == [kind |-> "ServerConfig", text |-> ServerConfigText]

None == [kind |-> "None", text |-> << >>]

\* the arguments MakefileDriver is called with
Configs ==
    { None,
      [kind |-> "ServerConfig", text |-> ServerConfigText],
      [kind |-> "SlurmConfig", text |-> SlurmConfigText],
      [kind |-> "Unrecognized", text |-> UnrecognizedText] }

\* isinstance(server_config, SlurmConfig)
isinstance_SlurmConfig(server_config) == server_config.kind = "SlurmConfig"

\* Makefile.__init__ on an object of class cls
Makefile_init(cls, server_config) ==
    [class |-> cls,
     server_config |-> IF server_config = None THEN ServerConfig_default
                       ELSE server_config]

\* a dispatch that forgets the batch case
MakefileDriver_always_default(server_config) ==
    Makefile_init("DefaultMakefile", server_config)

\* MakefileDriver.__new__
MakefileDriver_new(server_config) ==
    IF isinstance_SlurmConfig(server_config)
    THEN Makefile_init("SlurmMakefile", server_config)
    ELSE Makefile_init("DefaultMakefile", server_config)

\* str(self) of a renderer object
str(self) ==
    IF self.class = "SlurmMakefile"
    THEN SlurmMakefile_str(self.server_config.text)
    ELSE DefaultMakefile_str(self.server_config.text)

(***************************************************************************)
(* Makefile.write                                                          *)
(***************************************************************************)
Paths == 1..NPaths

\* contents a destination may hold before the generator runs
StaleContents == << "all:", NL, TAB, "echo", SP, "old", NL >>

\* a write that opens (and truncates) the file before it looks at overwrite
write_open_first(self, files, path, overwrite) ==
    IF files[path].exists /\ overwrite # TRUE
    THEN [fs |-> [files EXCEPT ![path] = File(<< >>)], raised |-> "IOError"]
    ELSE [fs |-> [files EXCEPT ![path] = File(str(self))], raised |-> "none"]

\* a write that opens the file in append mode
write_append(self, files, path, overwrite) ==
    IF files[path].exists /\ overwrite # TRUE
    THEN [fs |-> files, raised |-> "IOError"]
    ELSE [fs |-> [files EXCEPT ![path] = File(files[path].text \o str(self))],
          raised |-> "none"]

\* Makefile.write(path, overwrite): the file system and the exception after it
write(self, files, path, overwrite) ==
    IF files[path].exists /\ overwrite # TRUE
    THEN [fs |-> files, raised |-> "IOError"]
    ELSE [fs |-> [files EXCEPT ![path] = File(str(self))], raised |-> "none"]

InitGen ==
    /\ makefile = NoObject
    /\ fs \in [Paths -> { NoFile, File(StaleContents) }]
    /\ fs_pre = fs
    /\ call = [op |-> "none"]
    /\ raised = "none"

IdleGen ==
    /\ makefile = NoObject
    /\ fs = [p \in Paths |-> NoFile]
    /\ fs_pre = fs
    /\ call = [op |-> "none"]
    /\ raised = "none"

IdleRender ==
    /\ config_text = << >>
    /\ default_out = NotRendered
    /\ slurm_out = NotRendered

\* makefile = MakefileDriver(server_config)
CallMakefileDriver ==
    \E c \in Configs :
        /\ makefile' = MakefileDriver_new(c)
        /\ call' = [op |-> "MakefileDriver", server_config |-> c]
        /\ raised' = "none"
        /\ fs_pre' = fs
        /\ UNCHANGED << fs, render_vars, make_vars >>

\* makefile.write(path, overwrite)
CallWrite ==
    \E p \in Paths, ow \in BOOLEAN :
        /\ makefile # NoObject
        /\ LET r == write(makefile, fs, p, ow)
           IN  /\ fs' = r.fs
               /\ raised' = r.raised
        /\ fs_pre' = fs
        /\ call' = [op |-> "write", path |-> p, overwrite |-> ow]
        /\ UNCHANGED << makefile, render_vars, make_vars >>

(***************************************************************************)
(* Rendering as a pure function: the configuration text is drawn from all  *)
(* texts of at most MaxLen tokens, and the two __str__ are applied to it.  *)
(***************************************************************************)
TextAlphabet == { SP, NL, TAB, "x" }

Texts(n) == UNION { [1..k -> TextAlphabet] : k \in 0..n }

InitRender ==
    /\ config_text \in Texts(MaxLen)
    /\ default_out = NotRendered
    /\ slurm_out = NotRendered

\* str(DefaultMakefile(server_config))
RenderDefault ==
    /\ default_out = NotRendered
    /\ default_out' = DefaultMakefile_str(config_text)
    /\ UNCHANGED << config_text, slurm_out, gen_vars, make_vars >>

\* str(SlurmMakefile(server_config))
RenderSlurm ==
    /\ slurm_out = NotRendered
    /\ slurm_out' = SlurmMakefile_str(config_text)
    /\ UNCHANGED << config_text, default_out, gen_vars, make_vars >>

(***************************************************************************)
(* Reading a text line by line and target by target.                       *)
(***************************************************************************)
\* the positions of the newlines of s, ascending
NLIndex(s) == SelectSeq([i \in 1..Len(s) |-> i], LAMBDA i : s[i] = NL)

\* s.split("\n")
Lines(s) ==
    LET idx == NLIndex(s)
    IN  [k \in 1..(Len(idx) + 1) |->
            SubSeq(s, IF k = 1 THEN 1 ELSE idx[k - 1] + 1,
                      IF k = Len(idx) + 1 THEN Len(s) ELSE idx[k] - 1)]

\* how many four-space sequences a line starts with
LeadingGroups(line) ==
    Cardinality({ g \in 1..(Len(line) \div 4) : \A j \in 1..(4 * g) : line[j] = SP })

TargetWords == { "default:", "symlinks:", "slurm:", "run:", "tail:" }

IsTargetLine(line) == Len(line) >= 1 /\ line[1] \in TargetWords

\* the lines before the first target: header and configuration block
HeaderOf(lines) ==
    LET ts == { i \in 1..Len(lines) : IsTargetLine(lines[i]) }
    IN  IF ts = {} THEN lines
        ELSE SubSeq(lines, 1, (CHOOSE i \in ts : \A j \in ts : i <= j) - 1)

\* the lines of target `word`: from its rule line up to the next rule line
SectionOf(lines, word) ==
    LET ts == { i \in 1..Len(lines) : IsTargetLine(lines[i]) }
        mine == { i \in ts : lines[i][1] = word }
    IN  IF mine = {} THEN << >>
        ELSE LET t == CHOOSE i \in mine : \A j \in mine : i <= j
                 later == { i \in ts : i > t }
                 stop == IF later = {} THEN Len(lines) + 1
                         ELSE CHOOSE i \in later : \A j \in later : i <= j
             IN  SubSeq(lines, t, stop - 1)

(***************************************************************************)
(* make running the generated makefile.  A recipe is one shell invocation  *)
(* (its lines are joined by backslash-newline) under "set -e"; pc is the   *)
(* source line of the command the shell runs next.                         *)
(***************************************************************************)
flow_vars == << todo, pc, status >>
fixed_vars == << mk_class, env >>
file_vars == << job_file, outputs, touched >>
proc_vars == << tail_proc, tail_pid, solver, exit_status >>
batch_vars == << job, submitted, job_id, trap_set, events >>

JobIds == { ToString(i) : i \in 1..NJobs }

LogFiles == { "outputs/mirror.out", "outputs/fatal.error" }

\* $("$(wildcard $(SLURM_JOB_FILE))",""): make reads this as a reference to
\* a variable of that name, which nothing defines; it expands to nothing
\* whether or not the job file exists
OddReference(job_file_exists) == << >>

\* the prerequisites of SlurmMakefile's run: $(if ! <OddReference>, slurm);
\* the condition always holds the "!" and so is never empty
SlurmRunPrerequisites(job_file_exists) ==
    IF << "!" >> \o OddReference(job_file_exists) # << >>
    THEN << "slurm" >> ELSE << >>

\* the prerequisites the rule lines give each target
Prerequisites(cls, target, job_file_exists) ==
    IF cls = "DefaultMakefile"
    THEN CASE target = "default" -> << "symlinks" >>
           [] target = "run" -> << "default" >>
           [] OTHER -> << >>
    ELSE CASE target = "default" -> << "slurm" >>
           [] target = "slurm" -> << "symlinks" >>
           [] target = "run" -> SlurmRunPrerequisites(job_file_exists)
           [] OTHER -> << >>

RECURSIVE Plan(_, _, _)
\* the order in which make builds: prerequisites first, then the target
Plan(cls, target, job_file_exists) ==
    LET pre == Prerequisites(cls, target, job_file_exists)
    IN  (IF pre = << >> THEN << >> ELSE Plan(cls, pre[1], job_file_exists))
        \o << target >>

\* the first command line of a target's recipe; 0 for a target without one
FirstLine(cls, target) ==
    CASE target = "symlinks" -> 41
      [] target = "slurm" -> 111
      [] target = "run" -> IF cls = "DefaultMakefile" THEN 77 ELSE 141
      [] OTHER -> 0

\* [ ! -z "v" ]
NonEmpty(v) == v # ""

\* printf line >> file
redirect_append(file, lines) == File(file.text \o lines)

\* a ">" that keeps what the file held, as ">>" does
redirect_keep(file, lines) == File(file.text \o lines)

\* printf line > file
redirect_truncate(file, lines) == File(lines)

\* awk '{print $1}': the first field
first_field(tokens) == tokens[1]

\* awk '{print $NF}': the last whitespace-delimited field
last_field(tokens) == tokens[Len(tokens)]

\* squeue -j id | wc -l: the header line, plus one line while the job is queued
squeue_wc(id) == IF job = "queued" /\ id = submitted THEN 2 ELSE 1

\* a job script left by an earlier run
StaleJobFile ==
    File(<< << "#!/bin/bash --login", "" >>,
            << "#SBATCH --mail-user=", "old@host" >>,
            << "#SBATCH --time=", "99:00:00" >> >>)

SlurmEnvs ==
    [ SLURM_ACCOUNT : { "", "coast" },
      SLURM_MAIL_USER : { "", "user@host" },
      SLURM_WALLTIME : { "", "02:00:00" },
      SLURM_PARTITION : { "", "normal" },
      SYMLINK_OUTPUTS_DIR : { "", "/scratch/outputs" } ]

\* the default makefile defines none of the scheduler's variables
DefaultEnvs ==
    [ SLURM_ACCOUNT : { "" },
      SLURM_MAIL_USER : { "" },
      SLURM_WALLTIME : { "" },
      SLURM_PARTITION : { "" },
      SYMLINK_OUTPUTS_DIR : { "", "/scratch/outputs" } ]

AddEvent(e) ==
    IF \E i \in 1..Len(events) : events[i] = e THEN events ELSE Append(events, e)

InitMake ==
    /\ mk_class \in { "DefaultMakefile", "SlurmMakefile" }
    /\ env \in (IF mk_class = "SlurmMakefile" THEN SlurmEnvs ELSE DefaultEnvs)
    /\ job_file \in (IF mk_class = "SlurmMakefile"
                     THEN { NoFile, StaleJobFile } ELSE { NoFile })
    /\ \E goal \in { "default", "run" } :
          todo = Plan(mk_class, goal, job_file.exists)
    /\ pc = 0
    /\ status = "running"
    /\ outputs \in { "absent", "dir" }
    /\ touched = IF outputs = "dir" THEN LogFiles ELSE {}
    /\ tail_proc = "none"
    /\ tail_pid = "unset"
    /\ solver = "none"
    /\ exit_status = 0
    /\ job = "none"
    /\ submitted = "none"
    /\ job_id = << >>
    /\ trap_set = FALSE
    /\ sigint_log = << >>
    /\ events = << >>

IdleMake ==
    /\ mk_class = "none"
    /\ env = [x \in {} |-> ""]
    /\ job_file = NoFile
    /\ todo = << >>
    /\ pc = 0
    /\ status = "done"
    /\ outputs = "absent"
    /\ touched = {}
    /\ tail_proc = "none"
    /\ tail_pid = "unset"
    /\ solver = "none"
    /\ exit_status = 0
    /\ job = "none"
    /\ submitted = "none"
    /\ job_id = << >>
    /\ trap_set = FALSE
    /\ sigint_log = << >>
    /\ events = << >>

Running == status = "running"

At(line) == Running /\ pc = line

Goto(line) == pc' = line /\ UNCHANGED << todo, status >>

\* the recipe's shell exits 0: make goes on to the next target
RecipeEnd == pc' = 0 /\ todo' = Tail(todo) /\ UNCHANGED status

\* set -e: a command that exits non-zero ends the shell, and make with it
RecipeFail == status' = "failed" /\ UNCHANGED << todo, pc >>

\* make picks the next target: runs its recipe, or is done
MakeNext ==
    /\ At(0)
    /\ IF todo = << >>
       THEN status' = "done" /\ UNCHANGED << todo, pc >>
       ELSE IF FirstLine(mk_class, todo[1]) = 0
            THEN RecipeEnd
            ELSE Goto(FirstLine(mk_class, todo[1]))
    /\ UNCHANGED << fixed_vars, file_vars, proc_vars, batch_vars, sigint_log,
                    gen_vars, render_vars >>

(***************************************************************************)
(* The symlinks recipe (Makefile.symlinks).                                *)
(***************************************************************************)
\* if [ ! -z $${SYMLINK_OUTPUTS_DIR} ]
SymlinksTest ==
    /\ At(41)
    /\ Goto(IF NonEmpty(env.SYMLINK_OUTPUTS_DIR) THEN 43 ELSE 45)
    /\ UNCHANGED << fixed_vars, file_vars, proc_vars, batch_vars, sigint_log,
                    gen_vars, render_vars >>

\* ln -sf $${SYMLINK_OUTPUTS_DIR} $${ROOT_DIR}outputs
SymlinksLink ==
    /\ At(43)
    /\ outputs' = IF outputs = "dir" THEN "dir" ELSE "symlink"
    /\ Goto(47)
    /\ UNCHANGED << fixed_vars, job_file, touched, proc_vars, batch_vars,
                    sigint_log, gen_vars, render_vars >>

\* mkdir -p $${ROOT_DIR}outputs
SymlinksMkdir ==
    /\ At(45)
    /\ outputs' = IF outputs = "absent" THEN "dir" ELSE outputs
    /\ Goto(47)
    /\ UNCHANGED << fixed_vars, job_file, touched, proc_vars, batch_vars,
                    sigint_log, gen_vars, render_vars >>

\* touch outputs/mirror.out outputs/fatal.error
SymlinksTouch ==
    /\ At(47)
    /\ touched' = touched \cup LogFiles
    /\ RecipeEnd
    /\ UNCHANGED << fixed_vars, job_file, outputs, proc_vars, batch_vars,
                    sigint_log, gen_vars, render_vars >>

(***************************************************************************)
(* The slurm recipe (SlurmMakefile.slurm): it writes the job script, one   *)
(* printf a line.  A line of the script is << directive, value >>.         *)
(***************************************************************************)
PrintfLines == { 111, 112, 115, 119, 120, 122, 123, 126, 130, 132, 133 }

\* what the printf on a source line writes
PrintfText(line) ==
    CASE line = 111 -> << << "#!/bin/bash --login", "" >> >>
      [] line = 112 -> << << "#SBATCH -D .", "" >> >>
      [] line = 115 -> << << "#SBATCH -A ", env.SLURM_ACCOUNT >> >>
      [] line = 119 -> << << "#SBATCH --mail-user=", env.SLURM_MAIL_USER >> >>
      [] line = 120 -> << << "#SBATCH --mail-type=", "${SLURM_MAIL_TYPE:-all}" >> >>
      [] line = 122 -> << << "#SBATCH --output=", "${SLURM_LOG_FILE}" >> >>
      [] line = 123 -> << << "#SBATCH -n ", "${SLURM_NTASKS}" >> >>
      [] line = 126 -> << << "#SBATCH --time=", env.SLURM_WALLTIME >> >>
      [] line = 130 -> << << "#SBATCH --partition=", env.SLURM_PARTITION >> >>
      [] line = 132 -> << << "", "" >>, << "set -e", "" >> >>
      [] line = 133 -> << << "${MPI_LAUNCHER} ${SCHISM_BINARY}", "" >> >>

\* the command that follows the printf on a source line; 0: the recipe ends
PrintfNext(line) ==
    CASE line = 111 -> 112
      [] line = 112 -> 113
      [] line = 115 -> 117
      [] line = 119 -> 120
      [] line = 120 -> 122
      [] line = 122 -> 123
      [] line = 123 -> 124
      [] line = 126 -> 128
      [] line = 130 -> 132
      [] line = 132 -> 133
      [] line = 133 -> 0

\* the job script after the printf on a source line: line 111 redirects
\* with ">", every other with ">>"
PrintfTo(file, line) ==
    IF line = 111
    THEN redirect_truncate(file, PrintfText(line))
    ELSE redirect_append(file, PrintfText(line))

\* printf "..." > or >> ${SLURM_JOB_FILE}
SlurmPrintf ==
    /\ Running
    /\ pc \in PrintfLines
    /\ job_file' = PrintfTo(job_file, pc)
    /\ IF PrintfNext(pc) = 0 THEN RecipeEnd ELSE Goto(PrintfNext(pc))
    /\ UNCHANGED << fixed_vars, outputs, touched, proc_vars, batch_vars,
                    sigint_log, gen_vars, render_vars >>

IfLines == { 113, 117, 124, 128 }

\* the variable an if on a source line tests
IfVariable(line) ==
    CASE line = 113 -> env.SLURM_ACCOUNT
      [] line = 117 -> env.SLURM_MAIL_USER
      [] line = 124 -> env.SLURM_WALLTIME
      [] line = 128 -> env.SLURM_PARTITION

\* the first command of the then branch, and the command after fi
IfThen(line) ==
    CASE line = 113 -> 115 [] line = 117 -> 119
      [] line = 124 -> 126 [] line = 128 -> 130

IfAfter(line) ==
    CASE line = 113 -> 117 [] line = 117 -> 122
      [] line = 124 -> 128 [] line = 128 -> 132

\* if [ ! -z "${VARIABLE}" ]; then ... fi
SlurmIf ==
    /\ Running
    /\ pc \in IfLines
    /\ Goto(IF NonEmpty(IfVariable(pc)) THEN IfThen(pc) ELSE IfAfter(pc))
    /\ UNCHANGED << fixed_vars, file_vars, proc_vars, batch_vars, sigint_log,
                    gen_vars, render_vars >>

(***************************************************************************)
(* The run recipe of the default renderer (DefaultMakefile.run).           *)
(***************************************************************************)
\* eval 'tail -f outputs/mirror.out  outputs/fatal.error &'
RunStartTail ==
    /\ At(77)
    /\ tail_proc' = "running"
    /\ Goto(78)
    /\ UNCHANGED << fixed_vars, file_vars, tail_pid, solver, exit_status,
                    batch_vars, sigint_log, gen_vars, render_vars >>

\* tail_pid=$${!}
RunTailPid ==
    /\ At(78)
    /\ tail_pid' = "tail"
    /\ Goto(79)
    /\ UNCHANGED << fixed_vars, file_vars, tail_proc, solver, exit_status,
                    batch_vars, sigint_log, gen_vars, render_vars >>

\* ${MPI_LAUNCHER} ${NPROC} ${SCHISM_BINARY}: the solver starts, the shell waits
RunLaunchSolver ==
    /\ At(79)
    /\ solver = "none"
    /\ solver' = "running"
    /\ UNCHANGED << flow_vars, fixed_vars, file_vars, tail_proc, tail_pid,
                    exit_status, batch_vars, sigint_log, gen_vars, render_vars >>

\* the solver exits, with any status
SolverExit ==
    /\ Running
    /\ solver = "running"
    /\ \E st \in 0..MaxStatus : exit_status' = st
    /\ solver' = "exited"
    /\ UNCHANGED << flow_vars, fixed_vars, file_vars, tail_proc, tail_pid,
                    batch_vars, sigint_log, gen_vars, render_vars >>

\* the shell sees the solver's status: under set -e a non-zero status ends
\* the recipe here, before the kill
RunAfterSolver ==
    /\ At(79)
    /\ solver = "exited"
    /\ IF exit_status # 0 THEN RecipeFail ELSE Goto(80)
    /\ UNCHANGED << fixed_vars, file_vars, proc_vars, batch_vars, sigint_log,
                    gen_vars, render_vars >>

\* kill "$${tail_pid}"
RunKillTail ==
    /\ At(80)
    /\ tail_proc' = IF tail_pid = "tail" THEN "killed" ELSE tail_proc
    /\ RecipeEnd
    /\ UNCHANGED << fixed_vars, file_vars, tail_pid, solver, exit_status,
                    batch_vars, sigint_log, gen_vars, render_vars >>

(***************************************************************************)
(* The run recipe of the batch renderer (SlurmMakefile.run).               *)
(***************************************************************************)
\* touch ${SLURM_LOG_FILE}
BatchTouchLog ==
    /\ At(141)
    /\ touched' = touched \cup { "${SLURM_LOG_FILE}" }
    /\ Goto(142)
    /\ UNCHANGED << fixed_vars, job_file, outputs, proc_vars, batch_vars,
                    sigint_log, gen_vars, render_vars >>

\* eval 'tail -f ${SLURM_LOG_FILE} outputs/mirror.out outputs/fatal.error &'
BatchStartTail ==
    /\ At(142)
    /\ tail_proc' = "running"
    /\ events' = AddEvent("tail_start")
    /\ Goto(143)
    /\ UNCHANGED << fixed_vars, file_vars, tail_pid, solver, exit_status,
                    job, submitted, job_id, trap_set, sigint_log,
                    gen_vars, render_vars >>

\* tail_pid=$${!}
BatchTailPid ==
    /\ At(143)
    /\ tail_pid' = "tail"
    /\ Goto(144)
    /\ UNCHANGED << fixed_vars, file_vars, tail_proc, solver, exit_status,
                    batch_vars, sigint_log, gen_vars, render_vars >>

\* job_id=$$(sbatch ${SLURM_JOB_FILE}), accepted: the job is queued and
\* sbatch prints "Submitted batch job <id>"
BatchSubmit ==
    /\ At(144)
    /\ job_file.exists
    /\ \E id \in JobIds :
          /\ submitted' = id
          /\ job_id' = << "Submitted", "batch", "job", id >>
    /\ job' = "queued"
    /\ events' = AddEvent("submit")
    /\ Goto(145)
    /\ UNCHANGED << fixed_vars, file_vars, proc_vars, trap_set, sigint_log,
                    gen_vars, render_vars >>

\* job_id=$$(sbatch ${SLURM_JOB_FILE}), refused: sbatch exits non-zero and
\* set -e ends the recipe
BatchSubmitRefused ==
    /\ At(144)
    /\ RecipeFail
    /\ UNCHANGED << fixed_vars, file_vars, proc_vars, batch_vars, sigint_log,
                    gen_vars, render_vars >>

\* printf "$${job_id}\n"
BatchPrintJobId ==
    /\ At(145)
    /\ Goto(146)
    /\ UNCHANGED << fixed_vars, file_vars, proc_vars, batch_vars, sigint_log,
                    gen_vars, render_vars >>

\* job_id=$$(echo $${job_id} | awk '{print $$NF}')
BatchCaptureJobId ==
    /\ At(146)
    /\ job_id' = << last_field(job_id) >>
    /\ events' = AddEvent("capture")
    /\ Goto(147)
    /\ UNCHANGED << fixed_vars, file_vars, proc_vars, job, submitted, trap_set,
                    sigint_log, gen_vars, render_vars >>

\* ctrl_c() { scancel "$${job_id}"; }: the function is defined, not yet a trap
BatchDefineCtrlC ==
    /\ At(147)
    /\ Goto(150)
    /\ UNCHANGED << fixed_vars, file_vars, proc_vars, batch_vars, sigint_log,
                    gen_vars, render_vars >>

\* while [ $$(squeue -j $${job_id} | wc -l) -eq 2 ]
BatchPoll ==
    /\ At(150)
    /\ IF squeue_wc(job_id[1]) = 2
       THEN /\ Goto(152)
            /\ events' = AddEvent("poll")
       ELSE /\ Goto(154)
            /\ events' = Append(AddEvent("poll"), "loop_exit")
    /\ UNCHANGED << fixed_vars, file_vars, proc_vars, job, submitted, job_id,
                    trap_set, sigint_log, gen_vars, render_vars >>

\* do trap ctrl_c SIGINT; done
BatchTrap ==
    /\ At(152)
    /\ trap_set' = TRUE
    /\ Goto(150)
    /\ UNCHANGED << fixed_vars, file_vars, proc_vars, job, submitted, job_id,
                    events, sigint_log, gen_vars, render_vars >>

\* kill "$${tail_pid}"
BatchKillTail ==
    /\ At(154)
    /\ tail_proc' = IF tail_pid = "tail" THEN "killed" ELSE tail_proc
    /\ events' = AddEvent("tail_stop")
    /\ RecipeEnd
    /\ UNCHANGED << fixed_vars, file_vars, tail_pid, solver, exit_status,
                    job, submitted, job_id, trap_set, sigint_log,
                    gen_vars, render_vars >>

\* the job runs to its end and leaves the queue
JobLeaves ==
    /\ job = "queued"
    /\ job' = "gone"
    /\ UNCHANGED << flow_vars, fixed_vars, file_vars, proc_vars, submitted,
                    job_id, trap_set, events, sigint_log, gen_vars, render_vars >>

\* SIGINT with the trap in place: the shell runs ctrl_c, that is
\* scancel "$${job_id}", and goes on
InterruptTrapped ==
    /\ Running
    /\ Len(sigint_log) < MaxInterrupts
    /\ trap_set
    /\ sigint_log' = Append(sigint_log, [at |-> pc, scancel |-> job_id[1]])
    /\ job' = IF job = "queued" /\ job_id[1] = submitted THEN "cancelled" ELSE job
    /\ UNCHANGED << flow_vars, fixed_vars, file_vars, proc_vars, submitted,
                    job_id, trap_set, events, gen_vars, render_vars >>

\* SIGINT with no trap in place: the default action ends the shell and make;
\* the background tail, started with SIGINT ignored, lives on
InterruptDefault ==
    /\ Running
    /\ Len(sigint_log) < MaxInterrupts
    /\ ~trap_set
    /\ sigint_log' = Append(sigint_log, [at |-> pc, scancel |-> "none"])
    /\ status' = "interrupted"
    /\ solver' = IF solver = "running" THEN "killed" ELSE solver
    /\ UNCHANGED << todo, pc, fixed_vars, file_vars, tail_proc, tail_pid,
                    exit_status, batch_vars, gen_vars, render_vars >>

\* the steps make and its shells take on their own
ShellStep ==
    \/ MakeNext
    \/ SymlinksTest \/ SymlinksLink \/ SymlinksMkdir \/ SymlinksTouch
    \/ SlurmPrintf \/ SlurmIf
    \/ RunStartTail \/ RunTailPid \/ RunLaunchSolver \/ RunAfterSolver
    \/ RunKillTail
    \/ BatchTouchLog \/ BatchStartTail \/ BatchTailPid \/ BatchSubmit
    \/ BatchPrintJobId \/ BatchCaptureJobId \/ BatchDefineCtrlC \/ BatchPoll
    \/ BatchTrap \/ BatchKillTail

\* what the solver, the scheduler and the user do
Environment ==
    \/ SolverExit \/ BatchSubmitRefused \/ JobLeaves
    \/ InterruptTrapped \/ InterruptDefault

(***************************************************************************)
(* Claims about the generator (specification Spec).                        *)
(***************************************************************************)
\* the last call was write(path, overwrite) on a path that existed
WroteExisting == call.op = "write" /\ fs_pre[call.path].exists

\* C1: write(path, overwrite=False) on a path that already exists fails with
\* the destination-exists error (IOError) and leaves the file system, and so
\* the existing file's contents, exactly as it was before the call.
C1_ExistingNotOverwritten ==
    (WroteExisting /\ ~call.overwrite) =>
        /\ raised = "IOError"
        /\ fs[call.path] = fs_pre[call.path]
        /\ fs = fs_pre

\* a refused write has happened on a file that held contents
C1_Witness ==
    /\ WroteExisting /\ ~call.overwrite
    /\ raised = "IOError"
    /\ fs[call.path] = File(StaleContents)

\* C2: write on a path that does not exist (either overwrite), or on one that
\* exists with overwrite=True, succeeds, and the file then holds exactly
\* str(self): nothing of the previous contents is left.
C2_WriteReplacesContents ==
    (call.op = "write" /\ (~fs_pre[call.path].exists \/ call.overwrite)) =>
        /\ raised = "none"
        /\ fs[call.path] = File(str(makefile))
        /\ \A p \in Paths \ { call.path } : fs[p] = fs_pre[p]

\* an overwrite has replaced contents that differed from the new ones
C2_Witness ==
    /\ WroteExisting /\ call.overwrite
    /\ fs_pre[call.path].text # str(makefile)
    /\ fs[call.path].text = str(makefile)
    /\ makefile.class = "SlurmMakefile"

\* the last call was MakefileDriver(server_config)
Drove == call.op = "MakefileDriver"

\* C3: MakefileDriver returns the batch renderer exactly for a SlurmConfig and
\* the default renderer for a ServerConfig or for None; the renderer holds the
\* configuration it was given, None being replaced by ServerConfig().
C3_DriverSelectsByKind ==
    Drove =>
        /\ call.server_config.kind = "SlurmConfig" =>
              makefile = [class |-> "SlurmMakefile",
                          server_config |-> call.server_config]
        /\ call.server_config.kind = "ServerConfig" =>
              makefile = [class |-> "DefaultMakefile",
                          server_config |-> call.server_config]
        /\ call.server_config.kind = "None" =>
              makefile = [class |-> "DefaultMakefile",
                          server_config |-> ServerConfig_default]

\* the driver has returned a batch renderer holding a batch configuration
C3_Witness ==
    /\ Drove
    /\ call.server_config.kind = "SlurmConfig"
    /\ makefile.class = "SlurmMakefile"
    /\ makefile.server_config.text = SlurmConfigText

\* C4: MakefileDriver called with a configuration of an unrecognized kind
\* fails at call time: it raises and returns neither renderer.
C4_UnrecognizedFailsLoudly ==
    (Drove /\ call.server_config.kind = "Unrecognized") =>
        /\ raised # "none"
        /\ makefile = NoObject

(***************************************************************************)
(* Claims about the rendered text (specification SpecRender).              *)
(***************************************************************************)
\* a template line and the line rendered from it
TabbedLine(in, out) ==
    LET k == LeadingGroups(in)
    IN  /\ Len(out) >= k
        /\ \A j \in 1..k : out[j] = TAB
        /\ IF Len(in) > 4 * k
           THEN Len(out) > k /\ out[k + 1] = in[4 * k + 1]
           ELSE Len(out) = k
        /\ ~OccursAt(out, 1)

\* every line of the joined template text f against the output rendered from f
TabbedText(f, out) ==
    LET in_lines == Lines(join(<<NL>>, f))
        out_lines == Lines(out)
    IN  /\ Len(out_lines) = Len(in_lines)
        /\ \A i \in 1..Len(in_lines) : TabbedLine(in_lines[i], out_lines[i])

\* C5: for both renderers, a template line that starts with k four-space
\* sequences is rendered as a line that starts with k tabs followed by the
\* rest of the line (one tab for a four-space indented line), and no output
\* line begins with four spaces.
C5_IndentBecomesTabs ==
    /\ default_out # NotRendered =>
          TabbedText(DefaultMakefile_f(config_text), default_out)
    /\ slurm_out # NotRendered =>
          TabbedText(SlurmMakefile_f(config_text), slurm_out)

\* both renderers have rendered a configuration text whose own line is
\* four-space indented, next to the eight-space indented template lines
C5_Witness ==
    /\ default_out # NotRendered
    /\ slurm_out # NotRendered
    /\ config_text = << SP, SP, SP, SP, "x" >>
    /\ \E i \in 1..Len(Lines(slurm_out)) :
          Lines(slurm_out)[i] = << TAB, "x" >>
    /\ \E i \in 1..Len(Lines(slurm_out)) :
          LET l == Lines(slurm_out)[i]
          IN  Len(l) >= 3 /\ l[1] = TAB /\ l[2] = TAB /\ l[3] = "printf"

\* both outputs exist for the same configuration text
BothRendered == default_out # NotRendered /\ slurm_out # NotRendered

DefaultRule == << "default:", SP, "symlinks" >>

\* C10 as stated: the batch output has the same header, "default", "symlinks"
\* and "tail" sections as the default output, its "default" target being
\* "default: symlinks".
C10_SameSectionsAsDefault ==
    BothRendered =>
        LET d == Lines(default_out)
            s == Lines(slurm_out)
        IN  /\ HeaderOf(s) = HeaderOf(d)
            /\ SectionOf(s, "default:") = SectionOf(d, "default:")
            /\ SectionOf(s, "default:")[1] = DefaultRule
            /\ SectionOf(s, "symlinks:") = SectionOf(d, "symlinks:")
            /\ SectionOf(s, "tail:") = SectionOf(d, "tail:")

\* C10 amended: header, "symlinks" and "tail" sections are the same in both
\* outputs; the "default" rule is "default: symlinks" in the default output
\* but "default: slurm" in the batch output, whose added "slurm" target is the
\* one that depends on symlinks; the sections that differ are "default",
\* "slurm" (absent from the default output) and "run".
C10_SharedSections ==
    BothRendered =>
        LET d == Lines(default_out)
            s == Lines(slurm_out)
        IN  /\ HeaderOf(s) = HeaderOf(d)
            /\ SectionOf(s, "symlinks:") = SectionOf(d, "symlinks:")
            /\ SectionOf(s, "symlinks:") # << >>
            /\ SectionOf(s, "tail:") = SectionOf(d, "tail:")
            /\ SectionOf(s, "tail:") # << >>
            /\ SectionOf(d, "default:")[1] = DefaultRule
            /\ SectionOf(s, "default:")[1] = << "default:", SP, "slurm" >>
            /\ SectionOf(s, "slurm:")[1] = << "slurm:", SP, "symlinks" >>
            /\ SectionOf(d, "slurm:") = << >>
            /\ SectionOf(s, "run:") # SectionOf(d, "run:")

\* both outputs exist for a configuration text of several lines
C10_Witness ==
    /\ BothRendered
    /\ Len(config_text) = MaxLen
    /\ config_text[2] = NL
    /\ Len(SectionOf(Lines(slurm_out), "slurm:")) > 1

(***************************************************************************)
(* Claims about the generated recipes (specification SpecMake).            *)
(***************************************************************************)
\* the slurm recipe has run to its end
SlurmWritten ==
    /\ mk_class = "SlurmMakefile"
    /\ job_file.exists
    /\ pc \notin (PrintfLines \cup IfLines)
    /\ \A i \in 1..Len(todo) : todo[i] # "slurm"

\* the lines of the job script that carry a directive
DirectiveCount(d) ==
    Cardinality({ i \in 1..Len(job_file.text) : job_file.text[i][1] = d })

\* the directive is there once, with the value, when the value is set, and
\* not at all otherwise
Optional(d, v) ==
    IF v # ""
    THEN /\ DirectiveCount(d) = 1
         /\ \E i \in 1..Len(job_file.text) : job_file.text[i] = << d, v >>
    ELSE DirectiveCount(d) = 0

DirectiveOrder ==
    << "#SBATCH -A ", "#SBATCH --mail-user=", "#SBATCH --mail-type=",
       "#SBATCH --output=", "#SBATCH -n ", "#SBATCH --time=",
       "#SBATCH --partition=", "${MPI_LAUNCHER} ${SCHISM_BINARY}" >>

IsDirective(line) == \E k \in 1..Len(DirectiveOrder) : DirectiveOrder[k] = line[1]

\* C6: in the job script the slurm target writes, the account, mail-user and
\* mail-type, wall-time and partition directives are each there exactly once
\* when their setting is non-empty and not at all otherwise; the output-log
\* and task-count directives are there exactly once in every case; and the
\* directives come in the order account, mail, output log, task count,
\* wall-time, partition, with the launch command last.
C6_DirectivesOnceAndInOrder ==
    SlurmWritten =>
        /\ Optional("#SBATCH -A ", env.SLURM_ACCOUNT)
        /\ Optional("#SBATCH --mail-user=", env.SLURM_MAIL_USER)
        /\ DirectiveCount("#SBATCH --mail-type=") =
              (IF env.SLURM_MAIL_USER # "" THEN 1 ELSE 0)
        /\ Optional("#SBATCH --time=", env.SLURM_WALLTIME)
        /\ Optional("#SBATCH --partition=", env.SLURM_PARTITION)
        /\ DirectiveCount("#SBATCH --output=") = 1
        /\ DirectiveCount("#SBATCH -n ") = 1
        /\ DirectiveCount("${MPI_LAUNCHER} ${SCHISM_BINARY}") = 1
        /\ job_file.text[Len(job_file.text)][1] = "${MPI_LAUNCHER} ${SCHISM_BINARY}"
        /\ LET written == SelectSeq(job_file.text, IsDirective)
               present(d) == DirectiveCount(d) > 0
               expected == SelectSeq(DirectiveOrder, present)
           IN  [i \in 1..Len(written) |-> written[i][1]] = expected

\* a job script has been written with a wall-time and without a mail address
C6_Witness ==
    /\ SlurmWritten
    /\ env.SLURM_MAIL_USER = ""
    /\ env.SLURM_WALLTIME = "02:00:00"
    /\ env.SLURM_ACCOUNT = "coast"
    /\ \E i \in 1..Len(job_file.text) : job_file.text[i] = << "#SBATCH --time=", "02:00:00" >>
    /\ status = "done"

\* C7: whatever status the solver exits with, the default run recipe goes
\* on to kill the tail: no run of the recipe that saw the solver exit ends
\* with the tail still running.
C7_TailKilledAfterSolver ==
    (mk_class = "DefaultMakefile" /\ solver = "exited"
        /\ status \in { "done", "failed" }) =>
        tail_proc = "killed"

\* the commands of the batch run recipe that follow the capture of the job
\* identifier (line 146), up to the last one
AfterCapture == { 147, 150, 152, 154 }

\* C8: a SIGINT that arrives after the job identifier was captured and before
\* the batch run recipe has finished makes the shell call scancel with that
\* identifier.
C8_InterruptCancelsJob ==
    mk_class = "SlurmMakefile" =>
        \A i \in 1..Len(sigint_log) :
            sigint_log[i].at \in AfterCapture =>
                sigint_log[i].scancel = submitted

\* the events so far are the first events of `order`, in its order
FollowsOrder(order) ==
    /\ Len(events) <= Len(order)
    /\ \A i \in 1..Len(events) : events[i] = order[i]

\* the order of the steps as C9 states it
ClaimedOrder ==
    << "submit", "capture", "tail_start", "poll", "loop_exit", "tail_stop" >>

\* the order of the steps as the recipe has them
RecipeOrder ==
    << "tail_start", "submit", "capture", "poll", "loop_exit", "tail_stop" >>

Happened(e) == \E i \in 1..Len(events) : events[i] = e

RunOrderInvariant ==
    /\ FollowsOrder(RecipeOrder)
    /\ Happened("submit") => Happened("tail_start")
    /\ Happened("capture") => job_id = << submitted >>
    /\ Happened("loop_exit") => job # "queued"
    /\ Happened("tail_stop") => tail_proc = "killed"
    /\ (tail_proc = "killed" /\ mk_class = "SlurmMakefile") => Happened("loop_exit")

Init == InitGen /\ IdleRender /\ IdleMake

Next == CallMakefileDriver \/ CallWrite

\* the generator: MakefileDriver and Makefile.write on a file system
Spec == Init /\ [][Next]_vars

InitOfRender == InitRender /\ IdleGen /\ IdleMake

NextRender == RenderDefault \/ RenderSlurm

\* the two __str__ applied to every bounded configuration text
SpecRender == InitOfRender /\ [][NextRender]_vars

InitOfMake == InitMake /\ IdleGen /\ IdleRender

NextMake == ShellStep \/ Environment

\* make on the generated makefile; a shell that can take a step takes one
SpecMake == InitOfMake /\ [][NextMake]_vars /\ WF_vars(ShellStep)

=============================================================================
